---- MODULE Spec2Model ----
(***************************************************************************)
(* Model of parse_import.py: the module-level program (settings, scan,     *)
(* write), scan_clips, parse_audio_tags and create_database_entries.       *)
(*                                                                         *)
(* Strings are sequences of tokens.  A token stands for one or more        *)
(* characters; "." and "/" are tokens of their own and no other token      *)
(* contains them, and no token is a prefix of another, so two token        *)
(* sequences are equal exactly when the strings they spell are equal and   *)
(* the lexicographic order on tokens is Python's order on the strings.     *)
(***************************************************************************)
EXTENDS Integers, Sequences, FiniteSets, TLC

\* Largest number of regular files in the scanned tree.
MaxFiles == 3

None == <<>>
Some(x) == <<x>>

Range(s) == { s[i] : i \in DOMAIN s }

\* ------------------------------------------------------------------ strings

DotMp3 == <<".", "mp3">>
DotM4a == <<".", "m4a">>
DotM4r == <<".", "m4r">>
DotWav == <<".", "wav">>
DotMP3Upper == <<".", "MP3">>

\* Code point order of the tokens' first characters ('.' < 'M' < 'a' < 'm' < 'w';
\* "m4a" < "m4r" < "mp3" by their later characters).
TokenRank(t) ==
    CASE t = "."   -> 1
      [] t = "MP3" -> 2
      [] t = "a"   -> 3
      [] t = "b"   -> 4
      [] t = "m4a" -> 5
      [] t = "m4r" -> 6
      [] t = "mp3" -> 7
      [] t = "wav" -> 8

\* str < str
StrLess(a, b) ==
    \E i \in 1..(Len(a) + 1) :
        /\ \A j \in 1..(i - 1) : j <= Len(b) /\ a[j] = b[j]
        /\ \/ i > Len(a) /\ i <= Len(b)
           \/ i <= Len(a) /\ i <= Len(b) /\ TokenRank(a[i]) < TokenRank(b[i])

\* Path < Path: pathlib compares the lists of path components.
PathLess(p, q) ==
    \E i \in 1..(Len(p) + 1) :
        /\ \A j \in 1..(i - 1) : j <= Len(q) /\ p[j] = q[j]
        /\ \/ i > Len(p) /\ i <= Len(q)
           \/ i <= Len(p) /\ i <= Len(q) /\ StrLess(p[i], q[i])

\* name.rfind('.'), as a token position (0 when there is no dot).
RFindDot(name) ==
    IF \E i \in DOMAIN name : name[i] = "."
    THEN CHOOSE i \in DOMAIN name :
             name[i] = "." /\ \A j \in DOMAIN name : name[j] = "." => j <= i
    ELSE 0

\* PurePath.suffix: the last dot and what follows it, unless that dot is the
\* first or the last character of the name.
suffix(name) ==
    LET i == RFindDot(name)
    IN  IF 1 < i /\ i < Len(name) THEN SubSeq(name, i, Len(name)) ELSE <<>>

\* PurePath.stem: the name without its suffix.
stem(name) ==
    LET i == RFindDot(name)
    IN  IF 1 < i /\ i < Len(name) THEN SubSeq(name, 1, i - 1) ELSE name

\* A path relative to clips_path is the sequence of its components.
name_of(path) == path[Len(path)]

\* clip_file.parent.relative_to(clips_path)
parent_of(path) == SubSeq(path, 1, Len(path) - 1)

\* parent / stem: pathlib drops a "." component when it parses the segment.
JoinPath(parts, segment) ==
    IF segment = <<".">> THEN parts ELSE Append(parts, segment)

RECURSIVE JoinSlash(_)
JoinSlash(parts) ==
    IF Len(parts) = 1 THEN parts[1]
    ELSE parts[1] \o <<"/">> \o JoinSlash(Tail(parts))

\* str(path): the components joined by "/", and "." for the empty path.
PathStr(parts) == IF parts = <<>> THEN <<".">> ELSE JoinSlash(parts)

\* ------------------------------------------------------------- environment

NameA == <<"a">>

\* The regular files a scanned tree may hold.
FileUniverse ==
    { << <<"a", ".", "mp3">> >>,
      << <<"a", ".", "m4a">> >>,
      << <<"a", ".", "m4r">> >>,
      << <<"a", ".", "wav">> >>,
      << <<"a">> >>,
      << <<"b", ".", "mp3">> >>,
      << NameA, <<".", ".", "mp3">> >>,
      << NameA, <<"a", ".", "mp3">> >>,
      << NameA, <<"a", ".", "MP3">> >> }

\* The directories a set of files implies.
DirsOf(files) ==
    UNION { { SubSeq(f, 1, n) : n \in 1..(Len(f) - 1) } : f \in files }

\* No name is both a regular file and a directory.
ConsistentTree(files) ==
    \A f \in files : \A g \in files :
        \A n \in 1..(Len(g) - 1) : SubSeq(g, 1, n) # f

TagsA == [album |-> "B", artist |-> "A", title |-> "T", year |-> "2001"]
TagsB == [album |-> "B2", artist |-> "A2", title |-> "T2", year |-> "null"]

\* What TinyTag.get does on a file: raise TinyTagException (None) or return tags.
TagOutcomes == { None, Some(TagsA), Some(TagsB) }

AppSettingsInputs ==
    { <<>>,
      << <<"clips_directory", "">> >>,
      << <<"clips_directory", "clips">> >> }

DatabaseSettingsInputs ==
    { <<>>,
      << <<"database", "clips">> >>,
      << <<"database", "clips">>, <<"autocommit", "true">> >> }

\* What the store may hold when the program starts: nothing, nothing with an
\* AUTO_INCREMENT counter advanced by rows since deleted, or the rows an
\* earlier run committed for a.mp3.
StoreStarts ==
    { [ clips |-> <<>>, tags |-> <<>>, next_id |-> 1 ],
      [ clips |-> <<>>, tags |-> <<>>, next_id |-> 4 ],
      [ clips |-> << [ id |-> 1, key |-> <<"a">>, stem |-> <<"a">>, parent |-> <<".">>,
                       mp3 |-> TRUE, m4a |-> FALSE, m4r |-> FALSE ] >>,
        tags |-> << [ clip_id |-> 1, artist |-> "A", album |-> "B", title |-> "T",
                      year |-> "2001" ] >>,
        next_id |-> 2 ] }

VARIABLES
    pc,                 \* position of the program
    app_settings,       \* _app_settings, content of app_settings.json
    database_settings,  \* _database_settings, content of database_settings.json
    fs,                 \* regular files under the clips directory
    tag_data,           \* per file, what the tag library finds
    listing,            \* _all_clip_files
    idx,                \* position of the scan loop in listing
    all_metadata,       \* _all_metadata, in insertion order
    parsed,             \* calls of parse_audio_tags made so far
    scanned,            \* scan_clips has returned
    clips_info,         \* _clips_info
    clip_i,             \* position of the write loop in clips_info
    conn,               \* _database_connection: "none", "open", "closed"
    connects,           \* number of connections opened
    result,             \* result of cursor.fetchone()
    db_start,           \* the clips rows the store held when the program started
    db_clips, db_tags,  \* committed rows of the store
    tx_clips, tx_tags,  \* rows of the connection's open transaction
    next_id,            \* AUTO_INCREMENT counter of clips
    stmts,              \* statements executed on the connection
    notices             \* keys printed as lacking tag metadata

vars == << pc, app_settings, database_settings, fs, tag_data, listing, idx,
           all_metadata, parsed, scanned, clips_info, clip_i, conn, connects,
           result, db_start, db_clips, db_tags, tx_clips, tx_tags, next_id, stmts,
           notices >>

scan_vars == << listing, idx, all_metadata, parsed, scanned, clips_info >>
env_vars == << app_settings, database_settings, fs, tag_data >>
store_vars == << db_start, db_clips, db_tags, tx_clips, tx_tags, next_id >>
write_vars == << clip_i, conn, connects, result, stmts, notices >>

\* ------------------------------------------------------------------- helpers

\* dict.get(key) on a JSON object given as a sequence of <<key, value>> pairs.
Get(settings, k) ==
    IF \E i \in DOMAIN settings : settings[i][1] = k
    THEN Some((CHOOSE p \in Range(settings) : p[1] = k)[2])
    ELSE None

\* `not clips_directory`: None or the empty string.
ClipsDirectoryFalsy(settings) ==
    Get(settings, "clips_directory") \in { None, Some("") }

\* The connector's autocommit is off unless the settings turn it on.
Autocommit(settings) == Get(settings, "autocommit") = Some("true")

\* sorted(clips_path.rglob("*"))
RECURSIVE SortPaths(_)
SortPaths(S) ==
    IF S = {} THEN <<>>
    ELSE LET m == CHOOSE x \in S : \A y \in S \ {x} : PathLess(x, y)
         IN  <<m>> \o SortPaths(S \ {m})

is_file(path) == path \in fs

parse_audio_tags(audio_file_path) == tag_data[audio_file_path]

HasKey(md, key) == \E i \in DOMAIN md : md[i].key = key

IndexOfKey(md, key) == CHOOSE i \in DOMAIN md : md[i].key = key

ClipKey(path) == PathStr(JoinPath(parent_of(path), stem(name_of(path))))

\* ---------------------------------------------------------------------- Init

Init ==
    /\ pc = "start"
    /\ app_settings \in AppSettingsInputs
    /\ database_settings \in DatabaseSettingsInputs
    /\ fs \in { F \in SUBSET FileUniverse : Cardinality(F) <= MaxFiles /\ ConsistentTree(F) }
    /\ tag_data \in [fs -> TagOutcomes]
    /\ listing = <<>>
    /\ idx = 1
    /\ all_metadata = <<>>
    /\ parsed = <<>>
    /\ scanned = FALSE
    /\ clips_info = <<>>
    /\ clip_i = 1
    /\ conn = "none"
    /\ connects = 0
    /\ result = None
    /\ \E start \in StoreStarts :
          /\ db_start = start.clips
          /\ db_clips = start.clips
          /\ db_tags = start.tags
          /\ next_id = start.next_id
    /\ tx_clips = <<>>
    /\ tx_tags = <<>>
    /\ stmts = <<>>
    /\ notices = <<>>

\* ------------------------------------------------------------------- program

\* Module level, lines 147-162: read both settings files, exit when either
\* setting is empty, otherwise call scan_clips (which lists and sorts the tree).
LoadSettings ==
    /\ pc = "start"
    /\ IF ClipsDirectoryFalsy(app_settings) \/ database_settings = <<>>
       THEN /\ pc' = "exit"
            /\ UNCHANGED listing
       ELSE /\ pc' = "scan"
            /\ listing' = SortPaths(fs \cup DirsOf(fs))
    /\ UNCHANGED << idx, all_metadata, parsed, scanned, clips_info >>
    /\ UNCHANGED << env_vars, store_vars, write_vars >>

\* The record scan_clips creates for a key it has not seen.
NewRecord(clip_file) ==
    [ key      |-> ClipKey(clip_file),
      parent   |-> PathStr(parent_of(clip_file)),
      stem     |-> stem(name_of(clip_file)),
      suffixes |-> << suffix(name_of(clip_file)) >>,
      tags     |-> parse_audio_tags(clip_file) ]

\* The update scan_clips makes to the record of a key it has seen.
MergeRecord(rec, clip_file) ==
    IF "tags" \notin DOMAIN rec
    THEN [ rec EXCEPT !.suffixes = Append(@, suffix(name_of(clip_file))),
                      !.tags = parse_audio_tags(clip_file) ]
    ELSE [ rec EXCEPT !.suffixes = Append(@, suffix(name_of(clip_file))) ]

\* Whether MergeRecord calls parse_audio_tags.
MergeParses(rec) == "tags" \notin DOMAIN rec

\* One iteration of the loop of scan_clips.
ScanStep ==
    /\ pc = "scan"
    /\ idx <= Len(listing)
    /\ LET clip_file == listing[idx]
           key == ClipKey(clip_file)
       IN  IF is_file(clip_file)
           THEN IF ~HasKey(all_metadata, key)
                THEN /\ all_metadata' = Append(all_metadata, NewRecord(clip_file))
                     /\ parsed' = Append(parsed,
                            [file |-> clip_file, key |-> key,
                             tags |-> parse_audio_tags(clip_file)])
                ELSE LET i == IndexOfKey(all_metadata, key)
                     IN  /\ all_metadata' =
                                [all_metadata EXCEPT ![i] = MergeRecord(@, clip_file)]
                         /\ parsed' =
                                IF MergeParses(all_metadata[i])
                                THEN Append(parsed,
                                        [file |-> clip_file, key |-> key,
                                         tags |-> parse_audio_tags(clip_file)])
                                ELSE parsed
           ELSE UNCHANGED << all_metadata, parsed >>
    /\ idx' = idx + 1
    /\ UNCHANGED << pc, listing, scanned, clips_info >>
    /\ UNCHANGED << env_vars, store_vars, write_vars >>

\* scan_clips returns; lines 162-165 call create_database_entries when the
\* mapping is not empty.
ScanReturn ==
    /\ pc = "scan"
    /\ idx > Len(listing)
    /\ scanned' = TRUE
    /\ clips_info' = all_metadata
    /\ pc' = IF all_metadata # <<>> THEN "create" ELSE "exit"
    /\ UNCHANGED << listing, idx, all_metadata, parsed >>
    /\ UNCHANGED << env_vars, store_vars, write_vars >>

\* ------------------------------------------------- create_database_entries

\* Rows the connection sees: the committed ones and its own uncommitted ones.
VisibleClips == db_clips \o tx_clips
VisibleTags == db_tags \o tx_tags

has_mp3(clip_info) == DotMp3 \in Range(clip_info.suffixes)

\* The m4a test written with the mp3 extension.
has_m4a_CopiedFromMp3(clip_info) == DotMp3 \in Range(clip_info.suffixes)

has_m4a(clip_info) == DotM4a \in Range(clip_info.suffixes)

has_m4r(clip_info) == DotM4r \in Range(clip_info.suffixes)

\* The row of INSERT INTO clips, with the id the store generates.
ClipRow(clip_info, id) ==
    [ id     |-> id,
      key    |-> clip_info.key,
      stem   |-> clip_info.stem,
      parent |-> clip_info.parent,
      mp3    |-> has_mp3(clip_info),
      m4a    |-> has_m4a(clip_info),
      m4r    |-> has_m4r(clip_info) ]

\* The tags test written with a key the records do not have.
TagsPresent_WrongKey(clip_info) ==
    "tag" \in DOMAIN clip_info /\ clip_info.tags # None

\* `"tags" in clip_info and clip_info["tags"]`
TagsPresent(clip_info) ==
    "tags" \in DOMAIN clip_info /\ clip_info.tags # None

\* The SELECT without its WHERE clause: the id of any row of the table.
SelectId_NoWhere(rows, key) ==
    IF rows # <<>> THEN { << rows[j].id >> : j \in DOMAIN rows } ELSE { None }

\* SELECT id FROM clips WHERE key = %s LIMIT 1, then fetchone(): the results
\* the store may give, a tuple holding the id of a row with the key (any of
\* them, there being no ORDER BY), or None when no row matches.
SelectId(rows, key) ==
    IF \E i \in DOMAIN rows : rows[i].key = key
    THEN { << rows[j].id >> : j \in { i \in DOMAIN rows : rows[i].key = key } }
    ELSE { None }

\* The row of INSERT INTO tags.
TagRow(id, tags) ==
    [ clip_id |-> id,
      artist  |-> tags.artist,
      album   |-> tags.album,
      title   |-> tags.title,
      year    |-> tags.year ]

\* print(f"{key} does not have any audio tag metadata.")
EmitNotice(out, key) == Append(out, key)

Statement(op, key, ok) == [op |-> op, key |-> key, ok |-> ok]

\* Lines 59-62: return at once on empty settings, otherwise connect.  A
\* connect that fails raises out of the function.
Connect ==
    /\ pc = "create"
    /\ IF database_settings = <<>>
       THEN /\ pc' = "exit"
            /\ UNCHANGED << conn, connects >>
       ELSE \E ok \in BOOLEAN :
                IF ok
                THEN /\ conn' = "open"
                     /\ connects' = connects + 1
                     /\ pc' = "loop"
                ELSE /\ pc' = "raised"
                     /\ UNCHANGED << conn, connects >>
    /\ UNCHANGED << clip_i, result, stmts, notices >>
    /\ UNCHANGED << env_vars, scan_vars, store_vars >>

\* Lines 63-84: the INSERT of the current clip.  A statement that fails
\* raises out of the loop and out of the function.
InsertClip ==
    /\ pc = "loop"
    /\ clip_i <= Len(clips_info)
    /\ LET clip_info == clips_info[clip_i]
       IN  \E ok \in BOOLEAN :
             /\ stmts' = Append(stmts, Statement("INSERT clips", clip_info.key, ok))
             /\ IF ok
                THEN /\ IF Autocommit(database_settings)
                        THEN /\ db_clips' = Append(db_clips, ClipRow(clip_info, next_id))
                             /\ UNCHANGED tx_clips
                        ELSE /\ tx_clips' = Append(tx_clips, ClipRow(clip_info, next_id))
                             /\ UNCHANGED db_clips
                     /\ next_id' = next_id + 1
                     /\ pc' = "tags"
                ELSE /\ pc' = "raised"
                     /\ UNCHANGED << db_clips, tx_clips, next_id >>
    /\ UNCHANGED << db_start, db_tags, tx_tags, clip_i, conn, connects, result, notices >>
    /\ UNCHANGED << env_vars, scan_vars >>

\* Lines 86-91 and 112-113: with tags, the SELECT of the clip's id; without,
\* the notice, and on to the next clip.
TagsStep ==
    /\ pc = "tags"
    /\ LET clip_info == clips_info[clip_i]
       IN  IF TagsPresent(clip_info)
           THEN \E ok \in BOOLEAN :
                  /\ stmts' = Append(stmts, Statement("SELECT", clip_info.key, ok))
                  /\ IF ok
                     THEN /\ result' \in SelectId(VisibleClips, clip_info.key)
                          /\ pc' = "insert_tag"
                     ELSE /\ pc' = "raised"
                          /\ UNCHANGED result
                  /\ UNCHANGED << notices, clip_i >>
           ELSE /\ notices' = EmitNotice(notices, clip_info.key)
                /\ clip_i' = clip_i + 1
                /\ pc' = "loop"
                /\ UNCHANGED << stmts, result >>
    /\ UNCHANGED << conn, connects >>
    /\ UNCHANGED << env_vars, scan_vars, store_vars >>

\* Lines 93-111: when the SELECT found a row, the INSERT of the tags row.
InsertTag ==
    /\ pc = "insert_tag"
    /\ LET clip_info == clips_info[clip_i]
       IN  IF result # None
           THEN \E ok \in BOOLEAN :
                  /\ stmts' = Append(stmts, Statement("INSERT tags", clip_info.key, ok))
                  /\ IF ok
                     THEN /\ IF Autocommit(database_settings)
                             THEN /\ db_tags' = Append(db_tags,
                                         TagRow(result[1], clip_info.tags[1]))
                                  /\ UNCHANGED tx_tags
                             ELSE /\ tx_tags' = Append(tx_tags,
                                         TagRow(result[1], clip_info.tags[1]))
                                  /\ UNCHANGED db_tags
                          /\ clip_i' = clip_i + 1
                          /\ pc' = "loop"
                     ELSE /\ pc' = "raised"
                          /\ UNCHANGED << db_tags, tx_tags, clip_i >>
           ELSE /\ clip_i' = clip_i + 1
                /\ pc' = "loop"
                /\ UNCHANGED << stmts, db_tags, tx_tags >>
    /\ UNCHANGED << db_start, db_clips, tx_clips, next_id, conn, connects, result, notices >>
    /\ UNCHANGED << env_vars, scan_vars >>

\* Lines 115-116: close the connection and return.  Nothing was committed, so
\* the store drops the rows of the open transaction.
Close ==
    /\ pc = "loop"
    /\ clip_i > Len(clips_info)
    /\ conn' = "closed"
    /\ tx_clips' = <<>>
    /\ tx_tags' = <<>>
    /\ pc' = "exit"
    /\ UNCHANGED << db_start, db_clips, db_tags, next_id, clip_i, connects, result, stmts,
                    notices >>
    /\ UNCHANGED << env_vars, scan_vars >>

Next ==
    \/ LoadSettings
    \/ ScanStep
    \/ ScanReturn
    \/ Connect
    \/ InsertClip
    \/ TagsStep
    \/ InsertTag
    \/ Close

Spec == Init /\ [][Next]_vars

\* ------------------------------------------------------------------ properties

Terminated == pc \in {"exit", "raised"}

\* The write loop has gone through every clip and line 115 is next.
LoopComplete == pc = "loop" /\ clip_i > Len(clips_info)

\* create_database_entries has returned after closing its connection.
Returned == pc = "exit" /\ conn = "closed"

Count(seq, Test(_)) == Cardinality({ i \in DOMAIN seq : Test(seq[i]) })

\* The regular files of the listing that have the given key, in scan order.
VariantsOf(key) ==
    LET IsVariant(p) == p \in fs /\ ClipKey(p) = key
    IN  SelectSeq(listing, IsVariant)

\* C1: after the scan every record's tags are the extraction result of the
\* first variant, in scan order, whose extraction succeeds, and are absent
\* only when extraction fails for every variant of the key.
C1_FirstSuccessWins ==
    scanned =>
        \A i \in DOMAIN all_metadata :
            LET Succeeds(p) == tag_data[p] # None
                good == SelectSeq(VariantsOf(all_metadata[i].key), Succeeds)
            IN  IF good # <<>>
                THEN all_metadata[i].tags = tag_data[good[1]]
                ELSE all_metadata[i].tags = None

ParentStem(f) == << parent_of(f), stem(name_of(f)) >>

\* C2: the mapping has as many keys as there are distinct (parent, stem)
\* pairs among the regular files, and two files share a key exactly when
\* they share parent and stem.
C2_KeysCountPairs ==
    scanned =>
        /\ Len(all_metadata) = Cardinality({ ParentStem(f) : f \in fs })
        /\ \A f \in fs : \A g \in fs :
               (ClipKey(f) = ClipKey(g)) <=> (ParentStem(f) = ParentStem(g))

\* The store held no row when the program started.
StartedEmpty == db_start = <<>>

\* The clips rows this run has inserted, as its connection sees them.
WrittenClips == SubSeq(VisibleClips, Len(db_start) + 1, Len(VisibleClips))

RowsOfKey(rows, key) == { j \in DOMAIN rows : rows[j].key = key }

TagRowsOfId(rows, id) == { j \in DOMAIN rows : rows[j].clip_id = id }

\* C3: when the write loop has run to completion on a store that started
\* empty, the clips table holds exactly one row per key of the mapping, the
\* tags table exactly one row per clip with tags and none for a clip without,
\* each tags row carries the id of the clips row of its clip's key and the
\* clip's artist, album, title and year unchanged.  Stated of the tables as
\* the connection sees them once the loop is over, and of the stored tables
\* after the return when the connection commits each statement.
C3_RowsPerClip ==
    (StartedEmpty /\ (LoopComplete \/ (Returned /\ Autocommit(database_settings)))) =>
        /\ Len(VisibleClips) = Len(clips_info)
        /\ Len(VisibleTags) =
               Cardinality({ i \in DOMAIN clips_info : clips_info[i].tags # None })
        /\ \A i \in DOMAIN clips_info :
               /\ Cardinality(RowsOfKey(VisibleClips, clips_info[i].key)) = 1
               /\ \A j \in RowsOfKey(VisibleClips, clips_info[i].key) :
                      LET mine == TagRowsOfId(VisibleTags, VisibleClips[j].id)
                      IN  IF clips_info[i].tags = None
                          THEN mine = {}
                          ELSE /\ Cardinality(mine) = 1
                               /\ \A t \in mine :
                                      /\ VisibleTags[t].artist = clips_info[i].tags[1].artist
                                      /\ VisibleTags[t].album = clips_info[i].tags[1].album
                                      /\ VisibleTags[t].title = clips_info[i].tags[1].title
                                      /\ VisibleTags[t].year = clips_info[i].tags[1].year

\* A complete run over two clips with tags and one without, one of the tags
\* with a null year.
C3_Witness ==
    /\ StartedEmpty
    /\ LoopComplete
    /\ Len(clips_info) = 3
    /\ Len(VisibleTags) = 2
    /\ \E t \in DOMAIN VisibleTags : VisibleTags[t].year = "null"
    /\ \E t \in DOMAIN VisibleTags : VisibleTags[t].year = "2001"

\* C4: after create_database_entries has returned and the connection is
\* closed, every clip of the mapping still has its clips row in the store and
\* every clip with tags its tags row.
C4_RowsDurable ==
    Returned =>
        \A i \in DOMAIN clips_info :
            /\ RowsOfKey(db_clips, clips_info[i].key) # {}
            /\ clips_info[i].tags # None =>
                   \E j \in RowsOfKey(db_clips, clips_info[i].key) :
                       TagRowsOfId(db_tags, db_clips[j].id) # {}

\* C5: in every clips row this run has written, mp3, m4a and m4r are the membership tests
\* of ".mp3", ".m4a" and ".m4r" on the clip's list of extensions; no other
\* extension sets a flag.
C5_FlagsAreMembershipTests ==
    \A r \in Range(WrittenClips) :
        \A i \in DOMAIN clips_info :
            clips_info[i].key = r.key =>
                LET has(ext) == \E j \in DOMAIN clips_info[i].suffixes :
                                    clips_info[i].suffixes[j] = ext
                IN  /\ r.mp3 = has(<<".", "mp3">>)
                    /\ r.m4a = has(<<".", "m4a">>)
                    /\ r.m4r = has(<<".", "m4r">>)

\* A clip with the variants .mp3 and .wav has been written with mp3 set and
\* m4a and m4r clear, and a clip whose only variant is .MP3 with no flag set.
C5_Witness ==
    /\ \E r \in Range(WrittenClips) :
          \E i \in DOMAIN clips_info :
              /\ clips_info[i].key = r.key
              /\ clips_info[i].suffixes = << DotMp3, DotWav >>
              /\ r.mp3 /\ ~r.m4a /\ ~r.m4r
    /\ \E r \in Range(WrittenClips) :
          \E i \in DOMAIN clips_info :
              /\ clips_info[i].key = r.key
              /\ clips_info[i].suffixes = << DotMP3Upper >>
              /\ ~r.mp3 /\ ~r.m4a /\ ~r.m4r

\* C6: in a complete run of the write loop a clip without tags causes no
\* SELECT and no INSERT into tags and exactly one notice naming its key, a
\* clip with tags causes no notice, and the number of notices is the number
\* of clips none of whose variants was parsed successfully.
C6_SkipRule ==
    (LoopComplete \/ Returned) =>
        /\ \A i \in DOMAIN clips_info :
               LET key == clips_info[i].key
                   Names(n) == n = key
                   TagWork(st) == st.key = key /\ st.op \in {"SELECT", "INSERT tags"}
               IN  IF clips_info[i].tags = None
                   THEN Count(notices, Names) = 1 /\ Count(stmts, TagWork) = 0
                   ELSE Count(notices, Names) = 0
        /\ Len(notices) =
               Cardinality({ i \in DOMAIN clips_info :
                   ~ \E p \in Range(parsed) :
                         p.key = clips_info[i].key /\ p.tags # None })

\* A complete run with one clip reported and one clip given a tags row.
C6_Witness ==
    /\ Returned
    /\ Len(notices) = 1
    /\ Len(clips_info) = 2
    /\ \E i \in DOMAIN clips_info : clips_info[i].tags # None

\* C7: with empty database settings and a non-empty clips directory the
\* program ends having run scan_clips, without a connection or a statement.
C7_ScanRunsWithStoreDisabled ==
    (Terminated /\ database_settings = <<>> /\ ~ClipsDirectoryFalsy(app_settings)) =>
        (scanned /\ connects = 0 /\ stmts = <<>>)

\* C8: the connection is opened at most once and is not left open on any
\* exit path of create_database_entries.
C8_ConnectionReleased ==
    /\ connects <= 1
    /\ Terminated => conn # "open"

\* C9: a failed statement for one clip does not stop the loop: when the
\* program ends after connecting, the INSERT into clips has been issued for
\* every clip of the mapping.
C9_ContinueOnError ==
    (Terminated /\ connects = 1) =>
        \A i \in DOMAIN clips_info :
            \E j \in DOMAIN stmts :
                stmts[j].op = "INSERT clips" /\ stmts[j].key = clips_info[i].key

\* The extensions of the regular files among the first n entries of the
\* listing that have the given parent and stem, in scan order.
SeenSuffixes(parent, st, n) ==
    LET Same(p) == /\ p \in fs
                   /\ PathStr(parent_of(p)) = parent
                   /\ stem(name_of(p)) = st
        seen == SelectSeq(SubSeq(listing, 1, n), Same)
    IN  [ k \in DOMAIN seen |-> suffix(name_of(seen[k])) ]

\* C10: after any prefix of the listing every record has a non-empty list of
\* extensions without a duplicate, which is exactly the extensions of the
\* files seen so far with the record's parent and stem, in scan order.
C10_ScanInvariant ==
    pc = "scan" =>
        \A i \in DOMAIN all_metadata :
            LET rec == all_metadata[i]
            IN  /\ rec.suffixes # <<>>
                /\ \A j \in DOMAIN rec.suffixes : \A k \in DOMAIN rec.suffixes :
                       rec.suffixes[j] = rec.suffixes[k] => j = k
                /\ rec.suffixes = SeenSuffixes(rec.parent, rec.stem, idx - 1)

====
